---- MODULE Spec2Model ----
(***************************************************************************)
(* Model of the Rubik's cube solver of Gillu13/Rubik-solver: the move      *)
(* algebra (utilities.move), the connector searches of utilities.py,      *)
(* the four reduction phases and Kube.solve / Kube.move_list_to_state.     *)
(*                                                                         *)
(* A permutation matrix is represented by the function that maps each row  *)
(* index to the column index of the single 1 in that row; the product of   *)
(* two such matrices, their inverse and their action on a column vector    *)
(* are computed on that representation exactly as numpy computes them.     *)
(***************************************************************************)
EXTENDS Integers, Sequences, FiniteSets, TLC

\* ------------------------------------------------------------------ bounds
\* the algebra specification lengthens the moves of fewer tokens than this
MaxLen == 2
\* largest exponent tried by the power operation of the algebra specification
MaxPow == 4
\* longest scramble given to the solver
MaxScramble == 2
\* largest maxMove given to a connector search in the search specification
MaxDepth == 2
\* most corner slots out of place in a permutation given to solve_corner_pos
MaxMoved == 5
\* most edge slots out of place in a permutation given to solve_edge_pos
MaxEdgeMoved == 3
\* longest token list given to move_list_to_state on its own
MaxTurns == 3

\* ------------------------------------------------------- tokens and case
\* the 12 quarter-turn symbols: the keys of Kube.fund
Tokens == {"F", "f", "R", "r", "U", "u", "B", "b", "L", "l", "D", "d"}

\* a symbol that is not a key of Kube.fund
BadToken == "x"

\* str.upper() on the symbols of the model
upper(t) ==
  CASE t \in {"F", "f"} -> "F"
    [] t \in {"R", "r"} -> "R"
    [] t \in {"U", "u"} -> "U"
    [] t \in {"B", "b"} -> "B"
    [] t \in {"L", "l"} -> "L"
    [] t \in {"D", "d"} -> "D"
    [] OTHER -> "X"

\* str.lower() on the symbols of the model
lower(t) ==
  CASE t \in {"F", "f"} -> "f"
    [] t \in {"R", "r"} -> "r"
    [] t \in {"U", "u"} -> "u"
    [] t \in {"B", "b"} -> "b"
    [] t \in {"L", "l"} -> "l"
    [] t \in {"D", "d"} -> "d"
    [] OTHER -> "x"

\* ------------------------------------------------------ matrix operations
\* np.matrix(...): the array of values of an index expression, stored
\* (combining with the empty function tabulates the values once)
Arr(fn) == fn @@ <<>>

\* np.eye(N): the identity matrix
eye(N) == Arr([row \in 0..(N - 1) |-> row])

\* utilities.T: the transposition matrix of i and j
T(N, p, q) ==
  Arr([row \in 0..(N - 1) |->
         IF row = p THEN q ELSE IF row = q THEN p ELSE row])

\* numpy matrix product P*Q: P*Q has the 1 of a row where row P[row] of Q has it
MatMul(P, Q) == Arr([row \in DOMAIN P |-> Q[P[row]]])

\* numpy matrix inverse (P ** -1)
MatInv(P) == Arr([col \in DOMAIN P |-> CHOOSE row \in DOMAIN P : P[row] = col])

\* numpy matrix power P ** n for n >= -1
\* (n = 0 gives the identity, n = 1 the matrix, larger n by squaring)
RECURSIVE MatPow(_, _)
MatPow(P, n) ==
  IF n = -1 THEN MatInv(P)
  ELSE IF n = 0 THEN Arr([row \in DOMAIN P |-> row])
  ELSE IF n = 1 THEN P
  ELSE IF n % 2 = 0 THEN LET h == MatPow(P, n \div 2) IN MatMul(h, h)
  ELSE MatMul(MatPow(P, n - 1), P)

\* numpy product of a matrix and a column vector
MatVec(P, v) == Arr([row \in DOMAIN P |-> v[P[row]]])

\* --------------------------------------------------------- the move class
\* move.__init__ with M8, M3, M12, M2 given (copies of the four matrices)
move(M8, M12, M3, M2, seq) ==
  [A8 |-> M8, A12 |-> M12, S3 |-> M3, S2 |-> M2, decompo |-> seq]

\* move.__init__ with no matrix given: move(seq = ...)
move_seq(seq) == move(eye(8), eye(12), eye(24), eye(24), seq)

\* the last index k of the cycle list p (a tuple) with p[k] = i, 0 if none
LastIndexOf(p, n, slot) ==
  LET ks == {k \in 1..n : p[k] = slot}
  IN  IF ks = {} THEN 0 ELSE CHOOSE k \in ks : \A k2 \in ks : k2 <= k

\* the 3x3 orientation generator T(3,0,2)*T(3,0,1)
c_corner == MatMul(T(3, 0, 2), T(3, 0, 1))

\* the 2x2 orientation generator T(2,0,1)
c_edge == T(2, 0, 1)

\* move.__init__ with the cycle lists P8, P3, P12, P2 given (tuples, the
\* k-th element of the tuple is the source's p[k-1])
move_P(P8, P12, P3, P2, seq) ==
  LET A8  == MatMul(MatMul(T(8, P8[1], P8[4]), T(8, P8[1], P8[3])),
                    T(8, P8[1], P8[2]))
      s3  == [slot \in 0..7 |->
                LET k == LastIndexOf(P8, Len(P3), slot)
                IN  IF k = 0 THEN eye(3) ELSE MatPow(c_corner, P3[k])]
      y8  == MatVec(A8, eye(8))
      S3  == Arr([row \in 0..23 |->
                   3 * y8[row \div 3] + s3[row \div 3][row % 3]])
      A12 == MatMul(MatMul(T(12, P12[1], P12[4]), T(12, P12[1], P12[3])),
                    T(12, P12[1], P12[2]))
      s2  == [slot \in 0..11 |->
                LET k == LastIndexOf(P12, Len(P2), slot)
                IN  IF k = 0 THEN eye(2) ELSE MatPow(c_edge, P2[k])]
      y12 == MatVec(A12, eye(12))
      S2  == Arr([row \in 0..23 |->
                   2 * y12[row \div 2] + s2[row \div 2][row % 2]])
  IN  [A8 |-> A8, A12 |-> A12, S3 |-> S3, S2 |-> S2, decompo |-> seq]

\* move.make_M: block_diag(A8, A12, S3, S2), a 68x68 matrix
make_M(m) ==
  Arr([row \in 0..67 |->
         IF row < 8 THEN m.A8[row]
         ELSE IF row < 20 THEN 8 + m.A12[row - 8]
         ELSE IF row < 44 THEN 20 + m.S3[row - 20]
         ELSE 44 + m.S2[row - 44]])

\* the value raised by move.__pow__ for an exponent below -1
ValueError == [error |-> "ValueError"]

\* a faulty inverse token list: reversed, the case of the tokens kept
InvSeq_KeepCase(s) == Arr([k \in 1..Len(s) |-> s[Len(s) + 1 - k]])

\* a faulty inverse token list: case flipped, the order of the tokens kept
InvSeq_KeepOrder(s) ==
  Arr([k \in 1..Len(s) |->
         LET tok == s[k]
         IN  IF tok = upper(tok) THEN lower(tok) ELSE upper(tok)])

\* the token list built by move.__pow__ for expo = -1: reversed, case flipped
InvSeq(s) ==
  Arr([k \in 1..Len(s) |->
         LET tok == s[Len(s) + 1 - k]
         IN  IF tok = upper(tok) THEN lower(tok) ELSE upper(tok)])

\* a faulty repetition of the token list: one copy short
RECURSIVE RepSeq_OneShort(_, _)
RepSeq_OneShort(s, n) ==
  IF n <= 1 THEN <<>> ELSE RepSeq_OneShort(s, n - 1) \o s

\* the token list built by move.__pow__ for expo >= 1: expo copies
RECURSIVE RepSeq(_, _)
RepSeq(s, n) == IF n = 0 THEN <<>> ELSE RepSeq(s, n - 1) \o s

\* a faulty power that lets the exponent -2 through to the matrix power
\* (numpy computes the square of the inverse)
pow_AcceptsMinusTwo(self, expo) ==
  IF expo > -3
  THEN IF expo = 0 THEN move_seq(<<>>)
       ELSE move(MatPow(self.A8, expo), MatPow(self.A12, expo),
                 MatPow(self.S3, expo), MatPow(self.S2, expo),
                 IF expo < 0 THEN InvSeq(self.decompo)
                 ELSE RepSeq(self.decompo, expo))
  ELSE ValueError

\* move.__pow__
__pow__(self, expo) ==
  IF expo > -2
  THEN IF expo = 0 THEN move_seq(<<>>)
       ELSE move(MatPow(self.A8, expo), MatPow(self.A12, expo),
                 MatPow(self.S3, expo), MatPow(self.S2, expo),
                 IF expo = -1 THEN InvSeq(self.decompo)
                 ELSE RepSeq(self.decompo, expo))
  ELSE ValueError

\* a faulty product: the matrices multiplied in the other order
mul_Swapped(self, other) ==
  move(MatMul(other.A8, self.A8), MatMul(other.A12, self.A12),
       MatMul(other.S3, self.S3), MatMul(other.S2, self.S2),
       other.decompo \o self.decompo)

\* move.__mul__
__mul__(self, other) ==
  move(MatMul(self.A8, other.A8), MatMul(self.A12, other.A12),
       MatMul(self.S3, other.S3), MatMul(self.S2, other.S2),
       other.decompo \o self.decompo)

\* the not-found value returned by the connector searches
None == [None |-> TRUE]

\* the value raised when None is used as a move (None*A in conjugate)
TypeError == [error |-> "TypeError"]

\* a faulty conjugate: A itself when there is no G
conjugate_NoneAsIdentity(A, G) ==
  IF G = None THEN A
  ELSE __mul__(__mul__(G, A), __pow__(G, -1))

\* utilities.conjugate: G*A*G**(-1); G = None raises at the first product
conjugate(A, G) ==
  IF G = None THEN TypeError
  ELSE __mul__(__mul__(G, A), __pow__(G, -1))

\* utilities.commutator
commutator(A, B2) ==
  __mul__(__mul__(__mul__(__pow__(B2, -1), __pow__(A, -1)), B2), A)

\* ------------------------------------------------- Kube module constants
\* a faulty F: the four corners all given the twist 1
F_TwistOne == move_P(<<0, 2, 6, 4>>, <<4, 1, 6, 9>>, <<1, 1, 1, 1>>, <<1, 1, 1, 1>>, <<"F">>)
F == move_P(<<0, 2, 6, 4>>, <<4, 1, 6, 9>>, <<1, 2, 1, 2>>, <<1, 1, 1, 1>>, <<"F">>)
f == __pow__(F, -1)
R == move_P(<<4, 6, 7, 5>>, <<8, 9, 11, 10>>, <<1, 2, 1, 2>>, <<0, 0, 0, 0>>, <<"R">>)
r == __pow__(R, -1)
U == move_P(<<6, 2, 3, 7>>, <<6, 3, 7, 11>>, <<0, 0, 0, 0>>, <<0, 0, 0, 0>>, <<"U">>)
u == __pow__(U, -1)
B == move_P(<<1, 5, 7, 3>>, <<7, 2, 5, 10>>, <<2, 1, 2, 1>>, <<1, 1, 1, 1>>, <<"B">>)
b == __pow__(B, -1)
L == move_P(<<0, 1, 3, 2>>, <<0, 2, 3, 1>>, <<2, 1, 2, 1>>, <<0, 0, 0, 0>>, <<"L">>)
l == __pow__(L, -1)
D == move_P(<<0, 4, 5, 1>>, <<0, 4, 8, 5>>, <<0, 0, 0, 0>>, <<0, 0, 0, 0>>, <<"D">>)
d == __pow__(D, -1)

\* Kube.fund: the dictionary of the 12 fundamental moves
fund ==
  [t \in Tokens |->
     CASE t = "F" -> F [] t = "f" -> f
       [] t = "R" -> R [] t = "r" -> r
       [] t = "U" -> U [] t = "u" -> u
       [] t = "B" -> B [] t = "b" -> b
       [] t = "L" -> L [] t = "l" -> l
       [] t = "D" -> D [] t = "d" -> d]

\* Kube.fund_l: quarter turns and half turns
fund_l ==
  << F, __pow__(F, 2), f, R, __pow__(R, 2), r, U, __pow__(U, 2), u,
     B, __pow__(B, 2), b, L, __pow__(L, 2), l, D, __pow__(D, 2), d >>

\* product of a tuple of moves, written left to right as in the source
RECURSIVE Prod(_)
Prod(ms) ==
  IF Len(ms) = 1 THEN ms[1]
  ELSE __mul__(Prod(SubSeq(ms, 1, Len(ms) - 1)), ms[Len(ms)])

\* a faulty switcher: the square in place of the cube
M0_Squared == __pow__(__mul__(F, commutator(U, L)), 2)

M0 == __pow__(__mul__(F, commutator(U, L)), 3)
M1 == __mul__(__pow__(__mul__(f, L), 3), __pow__(__mul__(F, l), 3))
\* a faulty edge switcher: the last factor B is missing
M20_Short == Prod(<<__pow__(U, 2), F, b, __pow__(L, 2), f>>)
M20 == Prod(<<__pow__(U, 2), F, b, __pow__(L, 2), f, B>>)
M21 == Prod(<<__pow__(B, 2), R, l, __pow__(U, 2), r, L>>)
M22 == Prod(<<__pow__(U, 2), R, l, __pow__(F, 2), r, L>>)
M23 == Prod(<<__pow__(B, 2), D, u, __pow__(R, 2), d, U>>)
M30 == Prod(<<l, R, F, l, R, D, l, R, B, B, r, L, D, r, L, F, r, L, U, U>>)
\* a faulty edge flipper: the constant M30 in its place
M31_AsM30 == M30
M31 == Prod(<<b, F, D, b, F, R, b, F, U, U, f, B, R, f, B, D, f, B, L, L>>)


\* ------------------------------------------------------ state read-outs
\* the solved state vector X built by move_list_to_state and move.__str__
X == Arr([k \in 0..67 |->
            IF k < 8 THEN k
            ELSE IF k < 20 THEN k - 8
            ELSE IF k < 44 THEN (k - 20) % 3
            ELSE (k - 44) % 2])

\* the value raised by the dictionary lookup fund[a] for an unknown symbol
KeyError == [error |-> "KeyError"]

\* a faulty turn of the loop: a symbol that is no key of fund is skipped
replay_step_SkipUnknown(M, a) ==
  IF M = KeyError THEN KeyError
  ELSE IF a \notin DOMAIN fund THEN M
  ELSE __mul__(fund[a], M)

\* one turn of the loop of move_list_to_state: M = fund[a]*M, or the
\* KeyError of the lookup when a is no key of fund
replay_step(M, a) ==
  IF M = KeyError \/ a \notin DOMAIN fund THEN KeyError
  ELSE __mul__(fund[a], M)

\* the turns lo..hi of the loop of move_list_to_state, entered with M: the
\* turns of the first half of the range, then, unless one of them raised,
\* those of the second half
RECURSIVE replay_range(_, _, _, _)
replay_range(M, acts, lo, hi) ==
  IF lo > hi THEN M
  ELSE IF lo = hi THEN replay_step(M, acts[lo])
  ELSE LET mid == (lo + hi) \div 2
           half == replay_range(M, acts, lo, mid)
       IN  IF half = KeyError THEN KeyError
           ELSE replay_range(half, acts, mid + 1, hi)

\* the loop of move_list_to_state: M = fund[a]*M for each token in order
replay(acts) == replay_range(move_seq(<<>>), acts, 1, Len(acts))

\* Kube.move_list_to_state
move_list_to_state(acts) ==
  LET M == replay(acts)
  IN  IF M = KeyError THEN KeyError ELSE MatVec(make_M(M), X)

\* move.__str__: the four read-outs of the state vector Y
corner_pos(Yv) == [k \in 0..7 |-> Yv[k]]
edge_pos(Yv) == [k \in 0..11 |-> Yv[k + 8]]
corner_value(Yv) == [k \in 0..7 |-> Yv[3 * k + 8 + 12]]
edge_value(Yv) == [k \in 0..11 |-> Yv[2 * k + 4 * 8 + 12]]

\* the state vector a move produces from the solved cube (M.M * X)
StateOf(m) == MatVec(make_M(m), X)

\* ---------------------------------------------------- connector searches
\* default maxMove of send_8 and send_8_slow
DefaultMaxMove8 == 5
\* default maxMove of send_12 and send_12_slow
DefaultMaxMove12 == 3

\* a faulty test: a newest move on the face opposite to the face of the last
\* token is dropped too
pruned_SameAxis(m, g) ==
  LET m0 == upper(m.decompo[1])
      glast == upper(g.decompo[Len(g.decompo)])
      axis(t) == CASE t \in {"F", "B"} -> 1
                   [] t \in {"R", "L"} -> 2
                   [] t \in {"U", "D"} -> 3
  IN  axis(m0) = axis(glast)

\* a faulty test: only the face-inverse of the last token is dropped
pruned_InverseOnly(m, g) ==
  LET m0 == m.decompo[1]
      glast == g.decompo[Len(g.decompo)]
  IN  \/ (upper(m0) = m0 /\ glast = lower(m0))
      \/ (lower(m0) = m0 /\ glast = upper(m0))

\* the test of the double loop that drops the product m*g: the first token
\* of m and the last token of g turn the same face
pruned(m, g) ==
  LET m0 == m.decompo[1]
      glast == g.decompo[Len(g.decompo)]
  IN  \/ (upper(m0) = m0 /\ glast = lower(m0))
      \/ (lower(m0) = m0 /\ glast = upper(m0))
      \/ m0 = glast

\* the inner loop "for g in prev" for one m: the products appended to cur
cur_row(m, prev, n_combi) ==
  LET kept(g) == n_combi = 1 \/ ~ pruned(m, g)
      keep == SelectSeq(prev, kept)
  IN  [k \in 1..Len(keep) |-> __mul__(m, keep[k])]

\* the outer loop "for m in fact" over the first n elements of fact
RECURSIVE cur_rows(_, _, _, _)
cur_rows(fact, prev, n_combi, n) ==
  IF n = 0 THEN <<>>
  ELSE cur_rows(fact, prev, n_combi, n - 1) \o cur_row(fact[n], prev, n_combi)

\* the list fact of a search call
fact_of(auth, n_combi) ==
  IF n_combi = 1 THEN <<move_seq(<<>>)>> \o auth ELSE auth

\* the list passed as prev to the next call: [m for m in cur if m.decompo != []]
survivors(cands) ==
  LET nonempty(m) == m.decompo # <<>>
  IN  SelectSeq(cands, nonempty)

\* the arguments fact and prev and the list cur of the first calls of a
\* search with auth = fund_l, which do not depend on the cubies and slots
\* asked for, computed once
RECURSIVE fund_l_calls(_, _)
fund_l_calls(auth, n) ==
  IF n = 1
  THEN <<[fact |-> fact_of(auth, 1), prev |-> <<move_seq(<<>>)>>,
          cur |-> cur_rows(fact_of(auth, 1), <<move_seq(<<>>)>>, 1,
                           Len(auth) + 1)]>>
  ELSE LET before == fund_l_calls(auth, n - 1)
           prev == survivors(before[n - 1].cur)
       IN  Append(before, [fact |-> auth, prev |-> prev,
                           cur |-> cur_rows(auth, prev, n, Len(auth))])

fund_l_memo == fund_l_calls(fund_l, DefaultMaxMove12)

\* the list cur of a call, taken from the lists computed once when the call
\* is one of them
cur_from(memo, fact, prev, n_combi) ==
  IF /\ n_combi \in DOMAIN memo
     /\ fact = memo[n_combi].fact
     /\ prev = memo[n_combi].prev
  THEN memo[n_combi].cur
  ELSE cur_rows(fact, prev, n_combi, Len(fact))

\* the list cur built by the double loop of a search call
cur(fact, prev, n_combi) == cur_from(fund_l_memo, fact, prev, n_combi)

\* the scan "for m in cur: if ...: return m": the index of the first TRUE
\* in the list of the test's values on cur, 0 if there is none
first_index(hits) ==
  IF \E k \in 1..Len(hits) : hits[k]
  THEN CHOOSE k \in 1..Len(hits) :
         hits[k] /\ \A k2 \in 1..(k - 1) : ~ hits[k2]
  ELSE 0

\* the end of a search call: the candidate at index k returned when the scan
\* found one (k # 0), the value of the next call otherwise
returned(cands, k, deeper) ==
  IF k # 0 THEN cands[k] ELSE deeper

\* the test of send_8 on a candidate
hit_8(m, cb1, cb2, cl1, cl2) ==
  LET yv == MatVec(m.A8, eye(8))
  IN  \/ (yv[cl1] = cb1 /\ yv[cl2] = cb2)
      \/ (yv[cl1] = cb2 /\ yv[cl2] = cb1)

\* the test of send_8_slow on a candidate
hit_8_slow(m, cb1, cb2, cl1, cl2) ==
  LET yv == MatVec(m.A8, eye(8))
  IN  yv[cl1] = cb1 /\ yv[cl2] = cb2

\* a faulty test of send_12: the third cubie looked for after the second slot
hit_12_AfterSecond(m, cb1, cb2, cb3, cl1, cl2) ==
  LET yv == MatVec(m.A12, eye(12))
  IN  /\ yv[cl1] = cb1 /\ yv[cl2] = cb2
      /\ \E k2 \in (cl2 + 1)..11 : yv[k2] = cb3

\* the test of send_12 on a candidate
hit_12(m, cb1, cb2, cb3, cl1, cl2) ==
  LET yv == MatVec(m.A12, eye(12))
  IN  /\ yv[cl1] = cb1 /\ yv[cl2] = cb2
      /\ \E k2 \in (cl1 + 1)..11 : yv[k2] = cb3

\* the test of send_12_slow on a candidate
hit_12_slow(m, cb1, cb2, cl1, cl2) ==
  LET yv == MatVec(m.A12, eye(12))
  IN  yv[cl1] = cb1 /\ yv[cl2] = cb2

RECURSIVE send_8(_, _, _, _, _, _, _, _)
RECURSIVE send_8_slow(_, _, _, _, _, _, _, _)
RECURSIVE send_12(_, _, _, _, _, _, _, _, _)
RECURSIVE send_12_slow(_, _, _, _, _, _, _, _)

\* send_8 after the double loop: the scan of cur and the recursive call
scan_8(cands, cb1, cb2, cl1, cl2, auth, maxMove, n_combi) ==
  returned(cands,
           first_index([k \in 1..Len(cands) |->
                          hit_8(cands[k], cb1, cb2, cl1, cl2)]),
           send_8(cb1, cb2, cl1, cl2, auth, maxMove, n_combi + 1,
                  survivors(cands)))

\* send_8_slow after the double loop
scan_8_slow(cands, cb1, cb2, cl1, cl2, auth, maxMove, n_combi) ==
  returned(cands,
           first_index([k \in 1..Len(cands) |->
                          hit_8_slow(cands[k], cb1, cb2, cl1, cl2)]),
           send_8_slow(cb1, cb2, cl1, cl2, auth, maxMove, n_combi + 1,
                       survivors(cands)))

\* send_12 after the double loop
scan_12(cands, cb1, cb2, cb3, cl1, cl2, auth, maxMove, n_combi) ==
  returned(cands,
           first_index([k \in 1..Len(cands) |->
                          hit_12(cands[k], cb1, cb2, cb3, cl1, cl2)]),
           send_12(cb1, cb2, cb3, cl1, cl2, auth, maxMove, n_combi + 1,
                   survivors(cands)))

\* send_12_slow after the double loop
scan_12_slow(cands, cb1, cb2, cl1, cl2, auth, maxMove, n_combi) ==
  returned(cands,
           first_index([k \in 1..Len(cands) |->
                          hit_12_slow(cands[k], cb1, cb2, cl1, cl2)]),
           send_12_slow(cb1, cb2, cl1, cl2, auth, maxMove, n_combi + 1,
                        survivors(cands)))

\* utilities.send_8: corner cubies cb1, cb2 to the cubicles cl1, cl2 in either
\* order
send_8(cb1, cb2, cl1, cl2, auth, maxMove, n_combi, prev) ==
  IF n_combi > maxMove THEN None
  ELSE scan_8(cur(fact_of(auth, n_combi), prev, n_combi),
              cb1, cb2, cl1, cl2, auth, maxMove, n_combi)

\* a faulty send_8_slow: either order of the two cubies accepted
send_8_slow_EitherOrder(cb1, cb2, cl1, cl2, auth, maxMove, n_combi, prev) ==
  send_8(cb1, cb2, cl1, cl2, auth, maxMove, n_combi, prev)

\* utilities.send_8_slow: corner cubies cb1, cb2 to the cubicles cl1, cl2
send_8_slow(cb1, cb2, cl1, cl2, auth, maxMove, n_combi, prev) ==
  IF n_combi > maxMove THEN None
  ELSE scan_8_slow(cur(fact_of(auth, n_combi), prev, n_combi),
                   cb1, cb2, cl1, cl2, auth, maxMove, n_combi)

\* utilities.send_12: edge cubies cb1, cb2 to the cubicles cl1, cl2 with cubie
\* cb3 in a cubicle after cl1
send_12(cb1, cb2, cb3, cl1, cl2, auth, maxMove, n_combi, prev) ==
  IF n_combi > maxMove THEN None
  ELSE scan_12(cur(fact_of(auth, n_combi), prev, n_combi),
               cb1, cb2, cb3, cl1, cl2, auth, maxMove, n_combi)

\* a faulty send_12_slow: one depth more than maxMove is examined
send_12_slow_OneDeeper(cb1, cb2, cl1, cl2, auth, maxMove, n_combi, prev) ==
  IF n_combi > maxMove + 1 THEN None
  ELSE scan_12_slow(cur(fact_of(auth, n_combi), prev, n_combi),
                    cb1, cb2, cl1, cl2, auth, maxMove, n_combi)

\* utilities.send_12_slow: edge cubies cb1, cb2 to the cubicles cl1, cl2
send_12_slow(cb1, cb2, cl1, cl2, auth, maxMove, n_combi, prev) ==
  IF n_combi > maxMove THEN None
  ELSE scan_12_slow(cur(fact_of(auth, n_combi), prev, n_combi),
                    cb1, cb2, cl1, cl2, auth, maxMove, n_combi)

\* ------------------------------------------------------------ the phases
\* the values raised by a failing list lookup and by the use of a local
\* variable that was never assigned
IndexError == [error |-> "IndexError"]
NameError == [error |-> "NameError"]

\* the value of next_move while the phase has not assigned it
Unbound == [unbound |-> TRUE]

\* [k for k in range(ix+1, len(yv)) if int(yv[k]) == ix][0]: the first slot
\* after ix that holds label ix (in the field j), IndexError when there is
\* none
lookup_j(yv, ix, n) ==
  LET ks == {k \in (ix + 1)..(n - 1) : yv[k] = ix}
  IN  IF ks = {} THEN IndexError
      ELSE [j |-> CHOOSE k \in ks : \A k2 \in ks : k <= k2]

\* a faulty end of a loop body: y is left as it was
apply_next_KeepY(yv, acc, nm, field) ==
  IF nm = TypeError THEN TypeError
  ELSE IF nm = Unbound THEN NameError
  ELSE [y |-> yv, res |-> __mul__(nm, acc), next_move |-> nm]

\* the end of a loop body: res = next_move*res; y = A*y with A the matrix of
\* next_move the phase works on
apply_next(yv, acc, nm, field) ==
  IF nm = TypeError THEN TypeError
  ELSE IF nm = Unbound THEN NameError
  ELSE [y |-> MatVec(nm[field], yv), res |-> __mul__(nm, acc),
        next_move |-> nm]

\* solve_corner_pos: the body of the loop for slot ix once j is looked up
solve_corner_pos_at(yv, acc, ix, jx, switcher, c1, c2, auth) ==
  IF jx = IndexError THEN IndexError
  ELSE apply_next(yv, acc,
                  conjugate(switcher,
                            send_8(c1, c2, ix, jx.j, auth, DefaultMaxMove8, 1,
                                   <<move_seq(<<>>)>>)),
                  "A8")

\* solve_corner_pos: the body of the loop for slot ix
solve_corner_pos_body(yv, acc, nm, ix, switcher, c1, c2, auth) ==
  IF yv[ix] # ix
  THEN solve_corner_pos_at(yv, acc, ix, lookup_j(yv, ix, 8), switcher, c1, c2,
                           auth)
  ELSE [y |-> yv, res |-> acc, next_move |-> nm]

\* a faulty square: the conjugate applied once
conjugate_once(cj) == cj

\* conjugate(flipper, G)**2
conjugate_squared(cj) == IF cj = TypeError THEN TypeError ELSE __pow__(cj, 2)

\* a faulty choice of the power: the square for the value 2
pivot_power_Swapped(cj, v) == IF v = 1 THEN cj ELSE conjugate_squared(cj)

\* the power of conjugate(flipper, G) that pivot_corner_cubies applies for
\* the value v of y[3*i]
pivot_power(cj, v) == IF v = 2 THEN cj ELSE conjugate_squared(cj)

\* pivot_corner_cubies: the body of the loop for slot ix
pivot_corner_cubies_body(yv, acc, nm, ix, flipper, c2, auth) ==
  IF yv[3 * ix] = 2 \/ yv[3 * ix] = 1
  THEN apply_next(yv, acc,
                  pivot_power(conjugate(flipper,
                                        send_8_slow(0, c2, 0, ix, auth,
                                                    DefaultMaxMove8, 1,
                                                    <<move_seq(<<>>)>>)),
                              yv[3 * ix]),
                  "S3")
  ELSE [y |-> yv, res |-> acc, next_move |-> nm]

\* solve_edge_pos: "if G != None: next_move = conjugate(...); break", the
\* next turn of the loop over the switchers otherwise
switch_or_next(G, switcher, next_turn) ==
  IF G # None THEN conjugate(switcher, G) ELSE next_turn

\* solve_edge_pos: the loop over the switchers k, k+1, ... for the slots ix
\* and jx: next_move after the loop (left as it was when every search fails)
RECURSIVE try_switchers(_, _, _, _, _, _, _)
try_switchers(nm, ix, jx, switchers, triples, auth, k) ==
  IF k > Len(triples) THEN nm
  ELSE switch_or_next(
         send_12(triples[k][1], triples[k][2], triples[k][3], ix, jx, auth,
                 DefaultMaxMove12, 1, <<move_seq(<<>>)>>),
         switchers[k],
         try_switchers(nm, ix, jx, switchers, triples, auth, k + 1))

\* solve_edge_pos: the body of the loop for slot ix once j is looked up
solve_edge_pos_at(yv, acc, nm, ix, jx, switchers, triples, auth) ==
  IF jx = IndexError THEN IndexError
  ELSE apply_next(yv, acc,
                  try_switchers(nm, ix, jx.j, switchers, triples, auth, 1),
                  "A12")

\* solve_edge_pos: the body of the loop for slot ix
solve_edge_pos_body(yv, acc, nm, ix, switchers, triples, auth) ==
  IF yv[ix] # ix
  THEN solve_edge_pos_at(yv, acc, nm, ix, lookup_j(yv, ix, 12), switchers,
                         triples, auth)
  ELSE [y |-> yv, res |-> acc, next_move |-> nm]

\* a faulty pivot_edge_cubies: the test reads the entry after y[2*i]
pivot_edge_cubies_body_NextEntry(yv, acc, nm, ix, flipper, c2, auth) ==
  IF yv[2 * ix + 1] # 0
  THEN apply_next(yv, acc,
                  conjugate(flipper,
                            send_12_slow(0, c2, 0, ix, auth, DefaultMaxMove12,
                                         1, <<move_seq(<<>>)>>)),
                  "S2")
  ELSE [y |-> yv, res |-> acc, next_move |-> nm]

\* pivot_edge_cubies: the body of the loop for slot ix
pivot_edge_cubies_body(yv, acc, nm, ix, flipper, c2, auth) ==
  IF yv[2 * ix] # 0
  THEN apply_next(yv, acc,
                  conjugate(flipper,
                            send_12_slow(0, c2, 0, ix, auth, DefaultMaxMove12,
                                         1, <<move_seq(<<>>)>>)),
                  "S2")
  ELSE [y |-> yv, res |-> acc, next_move |-> nm]

\* the slice v[lo:hi] of a column vector, indexed from 0
slice(v, lo, hi) == Arr([k \in 0..(hi - lo - 1) |-> v[lo + k]])

VARIABLES
  am,      \* algebra: the current move value
  aerr,    \* algebra: the error raised by the last operation, "" if none
  sq,      \* search: the arguments of the search call
  sres,    \* search: the value returned by the call, "pending" before
  actions, \* solver: the token list whose state solve is called on
  pc,      \* solver: the position in solve
  Y,       \* solver: the running state vector of solve
  i,       \* solver: the loop index of the running phase
  y,       \* solver: the phase's local copy of its part of the state
  res,     \* solver: the move accumulated by the running phase
  next_move, \* solver: the move the running phase applied last
  resl,    \* solver: the moves returned by the finished phases
  out      \* solver: the token list returned by solve

avars == <<am, aerr>>
svars == <<sq, sres>>
kvars == <<actions, pc, Y, i, y, res, next_move, resl, out>>
vars == <<am, aerr, sq, sres, actions, pc, Y, i, y, res, next_move, resl, out>>

\* the value of a variable that holds nothing yet
Unset == [unset |-> TRUE]

\* the value of sres while no search call has returned
Pending == [pending |-> TRUE]

\* the variables of a part that a specification does not use
AIdle == am = Unset /\ aerr = ""
SIdle == sq = [fn |-> "none"] /\ sres = Pending
KIdle == /\ actions = <<>> /\ pc = "idle" /\ Y = Unset /\ i = 0 /\ y = Unset
         /\ res = Unset /\ next_move = Unset /\ resl = <<>> /\ out = Unset

\* --------------------------------------------- the algebra specification
\* the moves Kube builds at import time besides the fundamental ones
UsefulMoves == {M0, M1, M20, M21, M22, M23, M30, M31}

\* an operation that lengthens the token list is applied to the moves whose
\* token list is shorter than the bound
Grows == Len(am.decompo) < MaxLen

AInit == /\ am \in {move_seq(<<>>), commutator(U, L)} \cup UsefulMoves
         /\ aerr = ""
         /\ SIdle /\ KIdle

\* an operation that raised ends the run of the program
ARunning == aerr = ""

\* fund[t] * m
AMulLeft ==
  /\ ARunning /\ Grows
  /\ \E t \in Tokens : am' = __mul__(fund[t], am)
  /\ aerr' = ""

\* m * fund[t]
AMulRight ==
  /\ ARunning /\ Grows
  /\ \E t \in Tokens : am' = __mul__(am, fund[t])
  /\ aerr' = ""

\* m ** n for the exponents -1, 0, 1, ...
APow ==
  /\ ARunning
  /\ \E n \in (-1)..MaxPow :
       /\ (n > 1 => Grows)
       /\ am' = __pow__(am, n)
  /\ aerr' = ""

\* m ** n for an exponent below -1: ValueError, no move is built
APowInvalid ==
  /\ ARunning
  /\ \E n \in (0 - MaxPow - 1)..(-2) : __pow__(am, n) = ValueError
  /\ am' = am
  /\ aerr' = "ValueError"

\* conjugate(m, fund[t])
AConj ==
  /\ ARunning /\ Grows
  /\ \E t \in Tokens : am' = conjugate(am, fund[t])
  /\ aerr' = ""

\* conjugate(fund[t], m)
AConjBy ==
  /\ ARunning /\ Grows
  /\ \E t \in Tokens : am' = conjugate(fund[t], am)
  /\ aerr' = ""

\* commutator(m, fund[t]) and commutator(fund[t], m)
AComm ==
  /\ ARunning /\ Grows
  /\ \E t \in Tokens :
       \/ am' = commutator(am, fund[t])
       \/ am' = commutator(fund[t], am)
  /\ aerr' = ""

ANext ==
  /\ \/ AMulLeft \/ AMulRight \/ APow \/ APowInvalid
     \/ AConj \/ AConjBy \/ AComm
  /\ UNCHANGED <<svars, kvars>>

SpecAlgebra == AInit /\ [][ANext]_vars

\* ---------------------------------------------- the search specification
\* the authorized lists given to the searches: the one solve passes and a
\* short one with a half turn
Auths == {fund_l, <<U, __pow__(R, 2), f>>}

\* the corner cubies asked for: the pairs the phases pass, one of them in the
\* other order, and a pair that names one cubie twice
CornerPairs == {<<1, 3>>, <<3, 1>>, <<0, 2>>, <<2, 2>>}

\* the edge cubies asked for: the triples and the pair the phases pass, and
\* ones that name one cubie twice
EdgeTriples ==
  {<<0, 3, 11>>, <<5, 6, 7>>, <<4, 6, 7>>, <<2, 9, 10>>, <<0, 0, 3>>}

EdgePairs == {<<0, 3>>, <<3, 0>>, <<3, 3>>}

\* the arguments of the search calls made, n_combi and prev left to their
\* defaults
Query(fn, cb, cl1, cl2, auth, maxMove) ==
  [fn |-> fn, cb1 |-> cb[1], cb2 |-> cb[2],
   cb3 |-> IF Len(cb) = 3 THEN cb[3] ELSE 0,
   cl1 |-> cl1, cl2 |-> cl2, auth |-> auth, maxMove |-> maxMove]

Queries ==
  {Query(fn, cb, cl1, cl2, auth, maxMove) :
     fn \in {"send_8", "send_8_slow"}, cb \in CornerPairs,
     cl1 \in 0..7, cl2 \in 0..7, auth \in Auths, maxMove \in 0..MaxDepth}
  \cup
  {Query("send_12", cb, cl1, cl2, auth, maxMove) :
     cb \in EdgeTriples,
     cl1 \in 0..11, cl2 \in 0..11, auth \in Auths, maxMove \in 0..MaxDepth}
  \cup
  {Query("send_12_slow", cb, cl1, cl2, auth, maxMove) :
     cb \in EdgePairs,
     cl1 \in 0..11, cl2 \in 0..11, auth \in Auths, maxMove \in 0..MaxDepth}

SInit == sq \in Queries /\ sres = Pending /\ AIdle /\ KIdle

\* the call of send_8
S_send_8 ==
  /\ sq.fn = "send_8" /\ sres = Pending
  /\ sres' = send_8(sq.cb1, sq.cb2, sq.cl1, sq.cl2, sq.auth, sq.maxMove, 1,
                    <<move_seq(<<>>)>>)
  /\ sq' = sq

\* the call of send_8_slow
S_send_8_slow ==
  /\ sq.fn = "send_8_slow" /\ sres = Pending
  /\ sres' = send_8_slow(sq.cb1, sq.cb2, sq.cl1, sq.cl2, sq.auth, sq.maxMove,
                         1, <<move_seq(<<>>)>>)
  /\ sq' = sq

\* the call of send_12
S_send_12 ==
  /\ sq.fn = "send_12" /\ sres = Pending
  /\ sres' = send_12(sq.cb1, sq.cb2, sq.cb3, sq.cl1, sq.cl2, sq.auth,
                     sq.maxMove, 1, <<move_seq(<<>>)>>)
  /\ sq' = sq

\* the call of send_12_slow
S_send_12_slow ==
  /\ sq.fn = "send_12_slow" /\ sres = Pending
  /\ sres' = send_12_slow(sq.cb1, sq.cb2, sq.cl1, sq.cl2, sq.auth,
                          sq.maxMove, 1, <<move_seq(<<>>)>>)
  /\ sq' = sq

SNext ==
  /\ \/ S_send_8 \/ S_send_8_slow \/ S_send_12 \/ S_send_12_slow
  /\ UNCHANGED <<avars, kvars>>

SpecSearch == SInit /\ [][SNext]_vars

\* ---------------------------------------------- the solver specification
\* the switchers and the label triples solve passes to solve_edge_pos
switcher_l == <<M20, M21, M22, M23>>
\* faulty label triples: the first two labels of the first triple exchanged
c_l_Exchanged == <<<<3, 0, 11>>, <<5, 6, 7>>, <<4, 6, 7>>, <<2, 9, 10>>>>
c_l == <<<<0, 3, 11>>, <<5, 6, 7>>, <<4, 6, 7>>, <<2, 9, 10>>>>

\* the token lists given: every list of up to MaxScramble face names
ScrambleLists == UNION {[1..n -> Tokens] : n \in 0..MaxScramble}

\* a caller is about to run solve(move_list_to_state(actions)) on a list of
\* face names
Init ==
  /\ actions \in ScrambleLists /\ pc = "called"
  /\ Y = Unset /\ i = 0 /\ y = Unset /\ res = Unset /\ next_move = Unset
  /\ resl = <<>> /\ out = Unset
  /\ AIdle /\ SIdle

\* state = move_list_to_state(actions), then solve(state) up to the start of
\* the loop of solve_corner_pos
solve_begin ==
  /\ pc = "called"
  /\ pc' = "solve_corner_pos"
  /\ Y' = move_list_to_state(actions)
  /\ y' = slice(Y', 0, 8)
  /\ res' = move_seq(<<>>)
  /\ next_move' = Unbound
  /\ i' = 0
  /\ UNCHANGED <<actions, resl, out>>

\* what a loop body leaves: the locals of the phase, or the error that ends
\* the run
loop_body(r2) ==
  IF "error" \in DOMAIN r2
  THEN /\ pc' = r2.error
       /\ UNCHANGED <<y, res, next_move, i>>
  ELSE /\ y' = r2.y /\ res' = r2.res /\ next_move' = r2.next_move
       /\ i' = i + 1
       /\ pc' = pc

\* what the return of a phase to solve leaves: Y = res.M*Y, and the locals
\* of the next phase at the start of its loop
phase_return(next_pc, lo, hi, first) ==
  /\ resl' = Append(resl, res)
  /\ Y' = MatVec(make_M(res), Y)
  /\ y' = slice(Y', lo, hi)
  /\ res' = move_seq(<<>>)
  /\ next_move' = Unbound
  /\ i' = first
  /\ pc' = next_pc
  /\ UNCHANGED <<actions, out>>

\* solve_corner_pos(Y1, M0, 1, 3, fund_l): one turn of "for i in range(8)"
solve_corner_pos_loop ==
  /\ pc = "solve_corner_pos" /\ i < 8
  /\ loop_body(solve_corner_pos_body(y, res, next_move, i, M0, 1, 3, fund_l))
  /\ UNCHANGED <<actions, Y, resl, out>>

\* res1 returned; pivot_corner_cubies(Y2, M1, 2, fund_l) begins
solve_corner_pos_return ==
  /\ pc = "solve_corner_pos" /\ i = 8
  /\ phase_return("pivot_corner_cubies", 8 + 12, 4 * 8 + 12, 1)

\* pivot_corner_cubies: one turn of "for i in range(1,8)"
pivot_corner_cubies_loop ==
  /\ pc = "pivot_corner_cubies" /\ i < 8
  /\ loop_body(pivot_corner_cubies_body(y, res, next_move, i, M1, 2, fund_l))
  /\ UNCHANGED <<actions, Y, resl, out>>

\* res2 returned; solve_edge_pos(Y3, [M20..M23], [...], fund_l) begins
pivot_corner_cubies_return ==
  /\ pc = "pivot_corner_cubies" /\ i = 8
  /\ phase_return("solve_edge_pos", 8, 8 + 12, 0)

\* solve_edge_pos: one turn of "for i in range(10)"
solve_edge_pos_loop ==
  /\ pc = "solve_edge_pos" /\ i < 10
  /\ loop_body(solve_edge_pos_body(y, res, next_move, i, switcher_l, c_l,
                                   fund_l))
  /\ UNCHANGED <<actions, Y, resl, out>>

\* res3 returned; pivot_edge_cubies(Y4, M31, 3, fund_l) begins
solve_edge_pos_return ==
  /\ pc = "solve_edge_pos" /\ i = 10
  /\ phase_return("pivot_edge_cubies", 4 * 8 + 12, 4 * 8 + 12 + 2 * 12, 1)

\* pivot_edge_cubies: one turn of "for i in range(1,12)"
pivot_edge_cubies_loop ==
  /\ pc = "pivot_edge_cubies" /\ i < 12
  /\ loop_body(pivot_edge_cubies_body(y, res, next_move, i, M31, 3, fund_l))
  /\ UNCHANGED <<actions, Y, resl, out>>

\* res4 returned; solve returns (res4*res3*res2*res1).decompo
solve_return ==
  /\ pc = "pivot_edge_cubies" /\ i = 12
  /\ resl' = Append(resl, res)
  /\ out' = Prod(<<res, resl[3], resl[2], resl[1]>>).decompo
  /\ pc' = "done"
  /\ UNCHANGED <<actions, Y, i, y, res, next_move>>

Next ==
  /\ \/ solve_begin
     \/ solve_corner_pos_loop \/ solve_corner_pos_return
     \/ pivot_corner_cubies_loop \/ pivot_corner_cubies_return
     \/ solve_edge_pos_loop \/ solve_edge_pos_return
     \/ pivot_edge_cubies_loop \/ solve_return
  /\ UNCHANGED <<avars, svars>>

Spec == Init /\ [][Next]_vars

\* ------------------------------- the call of solve_corner_pos on its own
\* the bijections of the set S onto itself
PermsOf(S) ==
  {pm \in [S -> S] : \A k \in S, k2 \in S : k # k2 => pm[k] # pm[k2]}

\* the corner vectors given to solve_corner_pos: the permutations of the
\* labels 0..7 that leave all but MaxMoved slots at most in place
CornerPerms ==
  UNION {{Arr([k \in 0..7 |-> IF k \in S THEN pm[k] ELSE k]) :
            pm \in PermsOf(S)} :
         S \in {S2 \in SUBSET (0..7) : Cardinality(S2) <= MaxMoved}}

\* solve_corner_pos(Y, M0, 1, 3, fund_l) is entered: y is the copy of Y and
\* res the identity
CInit ==
  /\ pc = "solve_corner_pos"
  /\ y \in CornerPerms
  /\ res = move_seq(<<>>) /\ next_move = Unbound /\ i = 0
  /\ actions = <<>> /\ Y = Unset /\ resl = <<>> /\ out = Unset
  /\ AIdle /\ SIdle

\* "return res" after the loop of solve_corner_pos
solve_corner_pos_end ==
  /\ pc = "solve_corner_pos" /\ i = 8
  /\ pc' = "solve_corner_pos_returned"
  /\ UNCHANGED <<actions, Y, i, y, res, next_move, resl, out>>

CNext ==
  /\ \/ solve_corner_pos_loop \/ solve_corner_pos_end
  /\ UNCHANGED <<avars, svars>>

SpecCornerPos == CInit /\ [][CNext]_vars

\* ---------------------------- the call of pivot_corner_cubies on its own
\* the orientation values of the eight corners of a configuration that
\* quarter turns reach: their sum is a multiple of 3
TwistValues ==
  {tw \in [0..7 -> 0..2] :
     (tw[0] + tw[1] + tw[2] + tw[3] + tw[4] + tw[5] + tw[6] + tw[7]) % 3 = 0}

\* the part Y[20:44] of the state vector of a configuration whose corners
\* are in their slots with the orientation values tw: the three entries of
\* slot k are tw[k], tw[k]+1, tw[k]+2 modulo 3
TwistVector(tw) == Arr([k \in 0..23 |-> (tw[k \div 3] + (k % 3)) % 3])

\* pivot_corner_cubies(Y, M1, 2, fund_l) is entered: y is the copy of Y and
\* res the identity
PInit ==
  /\ pc = "pivot_corner_cubies"
  /\ y \in {TwistVector(tw) : tw \in TwistValues}
  /\ res = move_seq(<<>>) /\ next_move = Unbound /\ i = 1
  /\ actions = <<>> /\ Y = Unset /\ resl = <<>> /\ out = Unset
  /\ AIdle /\ SIdle

\* "return res" after the loop of pivot_corner_cubies
pivot_corner_cubies_end ==
  /\ pc = "pivot_corner_cubies" /\ i = 8
  /\ pc' = "pivot_corner_cubies_returned"
  /\ UNCHANGED <<actions, Y, i, y, res, next_move, resl, out>>

PNext ==
  /\ \/ pivot_corner_cubies_loop \/ pivot_corner_cubies_end
  /\ UNCHANGED <<avars, svars>>

SpecCornerTwist == PInit /\ [][PNext]_vars

\* --------------------------------- the call of solve_edge_pos on its own
\* the permutation pm of the set S is even: it has an even number of
\* inversions
Even(pm, S) ==
  Cardinality({pr \in S \X S : pr[1] < pr[2] /\ pm[pr[1]] > pm[pr[2]]}) % 2
    = 0

\* the edge vectors of the configurations that quarter turns reach with
\* the corners solved: the even permutations of the labels 0..11; those
\* that leave all but MaxEdgeMoved slots at most in place
EdgePerms ==
  UNION {{Arr([k \in 0..11 |-> IF k \in S THEN pm[k] ELSE k]) :
            pm \in {pm2 \in PermsOf(S) : Even(pm2, S)}} :
         S \in {S2 \in SUBSET (0..11) : Cardinality(S2) <= MaxEdgeMoved}}

\* solve_edge_pos(Y, [M20, M21, M22, M23], c_l, fund_l) is entered: y is the
\* copy of Y and res the identity
EInit ==
  /\ pc = "solve_edge_pos"
  /\ y \in EdgePerms
  /\ res = move_seq(<<>>) /\ next_move = Unbound /\ i = 0
  /\ actions = <<>> /\ Y = Unset /\ resl = <<>> /\ out = Unset
  /\ AIdle /\ SIdle

\* "return res" after the loop of solve_edge_pos
solve_edge_pos_end ==
  /\ pc = "solve_edge_pos" /\ i = 10
  /\ pc' = "solve_edge_pos_returned"
  /\ UNCHANGED <<actions, Y, i, y, res, next_move, resl, out>>

ENext ==
  /\ \/ solve_edge_pos_loop \/ solve_edge_pos_end
  /\ UNCHANGED <<avars, svars>>

SpecEdgePos == EInit /\ [][ENext]_vars

\* ------------------- the call of solve_edge_pos with a short authorized list
\* an authorized list a caller other than solve passes: three moves
short_auth == <<U, __pow__(R, 2), f>>

\* solve_edge_pos(Y, [M20, M21, M22, M23], c_l, short_auth): one turn of
\* "for i in range(10)"
solve_edge_pos_loop_short ==
  /\ pc = "solve_edge_pos" /\ i < 10
  /\ loop_body(solve_edge_pos_body(y, res, next_move, i, switcher_l, c_l,
                                   short_auth))
  /\ UNCHANGED <<actions, Y, resl, out>>

FNext ==
  /\ \/ solve_edge_pos_loop_short \/ solve_edge_pos_end
  /\ UNCHANGED <<avars, svars>>

SpecEdgeFallback == EInit /\ [][FNext]_vars

\* ------------------------------ the call of pivot_edge_cubies on its own
\* the orientation values of the twelve edges of a configuration that
\* quarter turns reach: their sum is even
FlipValues ==
  {fl \in [0..11 -> 0..1] :
     (fl[0] + fl[1] + fl[2] + fl[3] + fl[4] + fl[5] + fl[6] + fl[7] + fl[8]
        + fl[9] + fl[10] + fl[11]) % 2 = 0}

\* the part Y[44:68] of the state vector of a configuration whose edges are
\* in their slots with the orientation values fl: the two entries of slot k
\* are fl[k] and fl[k]+1 modulo 2
FlipVector(fl) == Arr([k \in 0..23 |-> (fl[k \div 2] + (k % 2)) % 2])

\* pivot_edge_cubies(Y, M31, 3, fund_l) is entered: y is the copy of Y and
\* res the identity
VInit ==
  /\ pc = "pivot_edge_cubies"
  /\ y \in {FlipVector(fl) : fl \in FlipValues}
  /\ res = move_seq(<<>>) /\ next_move = Unbound /\ i = 1
  /\ actions = <<>> /\ Y = Unset /\ resl = <<>> /\ out = Unset
  /\ AIdle /\ SIdle

\* "return res" after the loop of pivot_edge_cubies
pivot_edge_cubies_end ==
  /\ pc = "pivot_edge_cubies" /\ i = 12
  /\ pc' = "pivot_edge_cubies_returned"
  /\ UNCHANGED <<actions, Y, i, y, res, next_move, resl, out>>

VNext ==
  /\ \/ pivot_edge_cubies_loop \/ pivot_edge_cubies_end
  /\ UNCHANGED <<avars, svars>>

SpecEdgeFlip == VInit /\ [][VNext]_vars

\* ------------- the three phases without fallback, on a short list of moves
\* solve_corner_pos(Y, M0, 1, 3, auth) with the short list: one turn of
\* "for i in range(8)"
solve_corner_pos_loop_short ==
  /\ pc = "solve_corner_pos" /\ i < 8
  /\ loop_body(solve_corner_pos_body(y, res, next_move, i, M0, 1, 3,
                                     short_auth))
  /\ UNCHANGED <<actions, Y, resl, out>>

\* pivot_corner_cubies(Y, M1, 2, auth) with the short list: one turn of
\* "for i in range(1,8)"
pivot_corner_cubies_loop_short ==
  /\ pc = "pivot_corner_cubies" /\ i < 8
  /\ loop_body(pivot_corner_cubies_body(y, res, next_move, i, M1, 2,
                                        short_auth))
  /\ UNCHANGED <<actions, Y, resl, out>>

\* pivot_edge_cubies(Y, M31, 3, auth) with the short list: one turn of
\* "for i in range(1,12)"
pivot_edge_cubies_loop_short ==
  /\ pc = "pivot_edge_cubies" /\ i < 12
  /\ loop_body(pivot_edge_cubies_body(y, res, next_move, i, M31, 3,
                                      short_auth))
  /\ UNCHANGED <<actions, Y, resl, out>>

\* one of the three phases is entered
XInit == CInit \/ PInit \/ VInit

XNext ==
  /\ \/ solve_corner_pos_loop_short \/ solve_corner_pos_end
     \/ pivot_corner_cubies_loop_short \/ pivot_corner_cubies_end
     \/ pivot_edge_cubies_loop_short \/ pivot_edge_cubies_end
  /\ UNCHANGED <<avars, svars>>

SpecExhaust == XInit /\ [][XNext]_vars

\* ------------------ the search calls the phases of solve make, by slot pair
\* the calls with the list fund_l and the default maxMove: send_8(1, 3, i, j)
\* of solve_corner_pos, send_8_slow(0, 2, 0, i) of pivot_corner_cubies,
\* send_12 with the first label triple of solve_edge_pos, and
\* send_12_slow(0, 3, 0, i) of pivot_edge_cubies
SolveQueries ==
  {Query("send_8", <<1, 3>>, k, k2, fund_l, DefaultMaxMove8) :
     k \in 0..7, k2 \in 1..7}
  \cup
  {Query("send_8_slow", <<0, 2>>, 0, k, fund_l, DefaultMaxMove8) :
     k \in 1..7}
  \cup
  {Query("send_12", c_l[1], k, k2, fund_l, DefaultMaxMove12) :
     k \in 0..9, k2 \in 1..11}
  \cup
  {Query("send_12_slow", <<0, 3>>, 0, k, fund_l, DefaultMaxMove12) :
     k \in 1..11}

\* j is a slot after i in both position phases
QInit ==
  /\ sq \in {q \in SolveQueries : q.cl1 < q.cl2}
  /\ sres = Pending /\ AIdle /\ KIdle

\* the index in c_l of the label triple of the send_12 call sq
triple_index(q) ==
  CHOOSE k \in 1..Len(c_l) : c_l[k] = <<q.cb1, q.cb2, q.cb3>>

\* solve_edge_pos, "for k in range(len(c_l))": G is None and a label triple
\* is left, the search is called with the next one
next_switcher ==
  /\ sq.fn = "send_12" /\ sres = None
  /\ triple_index(sq) < Len(c_l)
  /\ sq' = Query("send_12", c_l[triple_index(sq) + 1], sq.cl1, sq.cl2,
                 sq.auth, sq.maxMove)
  /\ sres' = Pending

QNext ==
  /\ \/ S_send_8 \/ S_send_8_slow \/ S_send_12 \/ S_send_12_slow
     \/ next_switcher
  /\ UNCHANGED <<avars, kvars>>

SpecCoverage == QInit /\ [][QNext]_vars

\* ------------------ move_list_to_state on any list of symbols, by turns
\* the lists given: the symbols are the 12 face names and one that is no
\* key of fund
SymbolLists ==
  UNION {[1..n -> Tokens \cup {BadToken}] : n \in 0..MaxScramble}

\* move_list_to_state(actions) is entered: M = utl.move(seq = [])
LInit ==
  /\ actions \in SymbolLists /\ pc = "replay"
  /\ res = move_seq(<<>>) /\ i = 1
  /\ Y = Unset /\ y = Unset /\ next_move = Unset
  /\ resl = <<>> /\ out = Unset
  /\ AIdle /\ SIdle

\* one turn of "for a in actions": M = fund[a]*M, or the KeyError of fund[a]
\* that ends the call
replay_turn ==
  /\ pc = "replay" /\ i <= Len(actions)
  /\ IF replay_step(res, actions[i]) = KeyError
     THEN pc' = "KeyError" /\ UNCHANGED <<res, i>>
     ELSE res' = replay_step(res, actions[i]) /\ i' = i + 1 /\ pc' = pc
  /\ UNCHANGED <<actions, Y, y, next_move, resl, out>>

\* after the loop: res = M.M*X is returned
replay_return ==
  /\ pc = "replay" /\ i > Len(actions)
  /\ Y' = MatVec(make_M(res), X)
  /\ pc' = "replay_returned"
  /\ UNCHANGED <<actions, i, y, res, next_move, resl, out>>

LNext ==
  /\ \/ replay_turn \/ replay_return
  /\ UNCHANGED <<avars, svars>>

SpecReplay == LInit /\ [][LNext]_vars

\* ------------------------------ the call of move_list_to_state on its own
\* move_list_to_state([]) has returned the solved state
RInit ==
  /\ actions = <<>> /\ pc = "move_list_to_state"
  /\ Y = move_list_to_state(<<>>)
  /\ i = 0 /\ y = Unset /\ res = Unset /\ next_move = Unset
  /\ resl = <<>> /\ out = Unset
  /\ AIdle /\ SIdle

\* move_list_to_state is called with the list one face key longer
move_list_to_state_call ==
  /\ pc = "move_list_to_state"
  /\ Len(actions) < MaxTurns
  /\ \E key \in Tokens : actions' = Append(actions, key)
  /\ Y' = move_list_to_state(actions')
  /\ UNCHANGED <<pc, i, y, res, next_move, resl, out>>

RNext == move_list_to_state_call /\ UNCHANGED <<avars, svars>>

SpecReach == RInit /\ [][RNext]_vars

\* ------------------------------------------------ claims on the algebra
\* the identity function on 0..(N-1), written out
IdPerm(N) == [k \in 0..(N - 1) |-> k]

\* the all-zero orientation vector on N slots
Zero(N) == [k \in 0..(N - 1) |-> 0]

\* the move acts as the identity: identity corner and edge permutations and
\* all-zero corner and edge twists
ActsAsIdentity(m) ==
  /\ corner_pos(StateOf(m)) = IdPerm(8)
  /\ edge_pos(StateOf(m)) = IdPerm(12)
  /\ corner_value(StateOf(m)) = Zero(8)
  /\ edge_value(StateOf(m)) = Zero(12)

\* the same face turned the other way
FlipCase(t) ==
  CASE t = "F" -> "f" [] t = "f" -> "F"
    [] t = "R" -> "r" [] t = "r" -> "R"
    [] t = "U" -> "u" [] t = "u" -> "U"
    [] t = "B" -> "b" [] t = "b" -> "B"
    [] t = "L" -> "l" [] t = "l" -> "L"
    [] t = "D" -> "d" [] t = "d" -> "D"

\* C3: the token list of every move built from the fundamental moves by *,
\* **, conjugate and commutator, replayed from the identity by composing
\* fund[token] on the left one token at a time, reproduces the move's corner
\* permutation, corner twists, edge permutation and edge twists.
C3_TokenRoundTrip ==
  LET M == replay(am.decompo)
  IN  /\ M # KeyError
      /\ M.A8 = am.A8
      /\ M.S3 = am.S3
      /\ M.A12 = am.A12
      /\ M.S2 = am.S2

\* a commutator of two fundamental moves, built by the operations from the
\* identity, that moves and twists corners
C3_Witness ==
  /\ \E t1 \in {"F", "r"}, t2 \in {"U", "L"} :
       am = commutator(fund[t1], fund[t2])
  /\ am.A8 # IdPerm(8)
  /\ corner_value(StateOf(am)) # Zero(8)

\* C4: m * m**(-1) and m**(-1) * m act as the identity, and the token list
\* of m**(-1) is the token list of m reversed with every token's case flipped.
C4_InverseLaw ==
  aerr = "" =>
    LET mi == __pow__(am, -1)
        n == Len(am.decompo)
    IN  /\ ActsAsIdentity(__mul__(am, mi))
        /\ ActsAsIdentity(__mul__(mi, am))
        /\ Len(mi.decompo) = n
        /\ \A k \in 1..n : mi.decompo[k] = FlipCase(am.decompo[n + 1 - k])

\* a move of at least two tokens of both cases that twists corners and edges
C4_Witness ==
  /\ Len(am.decompo) >= 2
  /\ \E k \in 1..Len(am.decompo) : am.decompo[k] = upper(am.decompo[k])
  /\ \E k \in 1..Len(am.decompo) : am.decompo[k] = lower(am.decompo[k])
  /\ corner_value(StateOf(am)) # Zero(8)
  /\ edge_value(StateOf(am)) # Zero(12)
  /\ am.A8 # IdPerm(8)

\* m composed with itself n times by repeated *
RECURSIVE RepMul(_, _)
RepMul(m, n) == IF n = 1 THEN m ELSE __mul__(RepMul(m, n - 1), m)

\* C5: m**0 is the identity move with an empty token list; for n >= 1, m**n
\* has the permutations, twists and token list of m composed with itself n
\* times by repeated *; m**(-1) is the inverse of m.
C5_PowerLaw ==
  aerr = "" =>
    /\ __pow__(am, 0) = [A8 |-> IdPerm(8), A12 |-> IdPerm(12),
                         S3 |-> IdPerm(24), S2 |-> IdPerm(24),
                         decompo |-> <<>>]
    /\ \A n \in 1..MaxPow : __pow__(am, n) = RepMul(am, n)
    /\ LET p == __mul__(__pow__(am, -1), am)
           q == __mul__(am, __pow__(am, -1))
       IN  /\ p.A8 = IdPerm(8) /\ p.A12 = IdPerm(12)
           /\ p.S3 = IdPerm(24) /\ p.S2 = IdPerm(24)
           /\ q.A8 = IdPerm(8) /\ q.A12 = IdPerm(12)
           /\ q.S3 = IdPerm(24) /\ q.S2 = IdPerm(24)

\* the cube of a fundamental move, built by **
C5_Witness ==
  /\ Len(am.decompo) = 3
  /\ \E t \in Tokens : am = __pow__(fund[t], 3)
  /\ corner_value(StateOf(am)) # Zero(8)

\* the moves composed with the current one when the composition rule is checked
Operands == {F, r, U, b, L, d, M0, M1}

\* the rule of a*b ("apply b, then a") on the state read-outs: slot k holds
\* the cubie that b put in the slot a takes it from, with the twist b gave it
\* plus the twist of a at slot k; S3 and S2 of the product are the block
\* matrices of that permutation and those twists
Composes(a, bb) ==
  LET p  == __mul__(a, bb)
      Yp == StateOf(p)
      Ya == StateOf(a)
      Yb == StateOf(bb)
  IN  /\ \A k \in 0..7 :
           /\ corner_pos(Yp)[k] = corner_pos(Yb)[corner_pos(Ya)[k]]
           /\ corner_value(Yp)[k] =
                (corner_value(Yb)[corner_pos(Ya)[k]] + corner_value(Ya)[k]) % 3
           /\ \A rr \in 0..2 :
                p.S3[3 * k + rr] =
                  3 * corner_pos(Yp)[k] + ((rr + corner_value(Yp)[k]) % 3)
      /\ \A k \in 0..11 :
           /\ edge_pos(Yp)[k] = edge_pos(Yb)[edge_pos(Ya)[k]]
           /\ edge_value(Yp)[k] =
                (edge_value(Yb)[edge_pos(Ya)[k]] + edge_value(Ya)[k]) % 2
           /\ \A rr \in 0..1 :
                p.S2[2 * k + rr] =
                  2 * edge_pos(Yp)[k] + ((rr + edge_value(Yp)[k]) % 2)

\* C6: for all moves a and b, a*b is "apply b, then a": its permutations are
\* the composition in that order and the orientation value of each slot is
\* the twist b gave to the cubie that a carries into the slot plus the twist
\* a contributes there, mod 3 for corners and mod 2 for edges.
C6_CompositionRule ==
  aerr = "" =>
    /\ Composes(am, am)
    /\ \A o \in Operands : Composes(am, o) /\ Composes(o, am)

\* the product F*R built by *, both factors twisting corners
C6_Witness ==
  /\ am = __mul__(F, R)
  /\ am.decompo = <<"R", "F">>
  /\ corner_value(StateOf(am)) # Zero(8)
  /\ aerr = ""

\* C9: for every move m and every exponent n < -1, m**n raises ValueError
\* and builds no move.
C9_InvalidPower ==
  \A n \in (0 - MaxPow - 2)..(-2) :
    /\ __pow__(am, n) = ValueError
    /\ "A8" \notin DOMAIN __pow__(am, n)
    /\ (aerr = "ValueError" => ~ ENABLED AMulLeft)

\* an invalid power has just been asked of a move of two tokens
C9_Witness == aerr = "ValueError" /\ Len(am.decompo) >= 2 /\ am.A8 # IdPerm(8)

\* ----------------------------------------------- claims on the searches
\* the candidates a search over auth examines at depth n
RECURSIVE Depth(_, _)
Depth(auth, n) ==
  IF n = 1 THEN cur(fact_of(auth, 1), <<move_seq(<<>>)>>, 1)
  ELSE cur(auth, survivors(Depth(auth, n - 1)), n)

\* the move m places the cubies of the call q as the called search wants
Qualifies(q, m) ==
  CASE q.fn = "send_8" ->
         \/ (m.A8[q.cl1] = q.cb1 /\ m.A8[q.cl2] = q.cb2)
         \/ (m.A8[q.cl1] = q.cb2 /\ m.A8[q.cl2] = q.cb1)
    [] q.fn = "send_8_slow" ->
         m.A8[q.cl1] = q.cb1 /\ m.A8[q.cl2] = q.cb2
    [] q.fn = "send_12" ->
         /\ m.A12[q.cl1] = q.cb1 /\ m.A12[q.cl2] = q.cb2
         /\ \E k \in 0..11 : k > q.cl1 /\ m.A12[k] = q.cb3
    [] q.fn = "send_12_slow" ->
         m.A12[q.cl1] = q.cb1 /\ m.A12[q.cl2] = q.cb2

\* some candidate of depth n qualifies for the call q
QualifiesAt(q, n) ==
  LET cands == Depth(q.auth, n)
  IN  \E k \in 1..Len(cands) : Qualifies(q, cands[k])

\* the call has returned
Returned == sq.fn # "none" /\ sres # Pending

\* C7: the move a search returns qualifies (both cubies in their slots, in
\* either order for send_8, and cb3 after cl1 for send_12) and is a candidate
\* of the smallest depth at which any candidate qualifies.
C7_FirstQualifyingDepth ==
  (Returned /\ sres # None) =>
    /\ Qualifies(sq, sres)
    /\ \E n \in 1..sq.maxMove :
         /\ LET cands == Depth(sq.auth, n)
            IN  \E k \in 1..Len(cands) : cands[k] = sres
         /\ \A n2 \in 1..(n - 1) : ~ QualifiesAt(sq, n2)

\* send_12 has returned a move of the second depth
C7_Witness ==
  /\ Returned /\ sq.fn = "send_12" /\ sq.auth = fund_l
  /\ sres # None
  /\ ~ QualifiesAt(sq, 1)
  /\ Qualifies(sq, sres)
  /\ sq.cl1 # sq.cl2

\* the longest token list of a move of auth
MaxTokens(auth) ==
  CHOOSE n \in {Len(auth[k].decompo) : k \in 1..Len(auth)} :
    \A k \in 1..Len(auth) : Len(auth[k].decompo) <= n

\* C8: every search call returns, either a move made of at most maxMove
\* authorized moves or None, and it returns None when no candidate of the
\* depths 1..maxMove qualifies.
C8_BoundedSearch ==
  Returned =>
    /\ sres = None \/ "A8" \in DOMAIN sres
    /\ sres # None =>
         Len(sres.decompo) <= sq.maxMove * MaxTokens(sq.auth)
    /\ (\A n \in 1..sq.maxMove : ~ QualifiesAt(sq, n)) => sres = None

\* a search for one cubie in two slots has given up after two depths
C8_Witness ==
  /\ Returned /\ sq.cb1 = sq.cb2 /\ sq.cl1 # sq.cl2
  /\ sq.maxMove >= 2 /\ sq.auth = fund_l
  /\ sres = None

\* ------------------------------------------------- claims on the solver
\* every symbol of the token list is one of the 12 quarter-turn symbols
AllTokens(acts) == \A k \in 1..Len(acts) : acts[k] \in Tokens

\* the state vector is the solved configuration: identity positions and
\* zero orientation values
Solved(Yv) ==
  /\ corner_pos(Yv) = IdPerm(8)
  /\ edge_pos(Yv) = IdPerm(12)
  /\ corner_value(Yv) = Zero(8)
  /\ edge_value(Yv) = Zero(12)

\* C1: for every sequence of quarter-turn tokens the run of solve on its
\* state ends with no error and returns a token list T such that the replay
\* of the sequence followed by T is the solved configuration.
C1_SolverCorrect ==
  /\ AllTokens(actions) =>
       pc \in {"called", "solve_corner_pos", "pivot_corner_cubies",
               "solve_edge_pos", "pivot_edge_cubies", "done"}
  /\ pc = "done" => Solved(move_list_to_state(actions \o out))

\* solve has returned a solution of a scramble of two different faces that
\* moved and twisted corners
C1_Witness ==
  /\ pc = "done" /\ Len(actions) = 2
  /\ upper(actions[1]) # upper(actions[2])
  /\ out # <<>>
  /\ corner_value(move_list_to_state(actions)) # Zero(8)
  /\ edge_value(move_list_to_state(actions)) # Zero(12)
  /\ \A k \in 1..4 : resl[k].decompo # <<>>

\* C2: when the replay of the token list is the solved configuration, solve
\* returns the empty token list and none of the four phases composes a move.
C2_SolvedGivesEmpty ==
  (pc = "done" /\ Solved(move_list_to_state(actions))) =>
    /\ out = <<>>
    /\ \A k \in 1..4 : resl[k].decompo = <<>>

\* solve has returned for a face turned forth and back
C2_Witness ==
  /\ pc = "done" /\ Len(actions) = 2
  /\ actions[2] = FlipCase(actions[1])
  /\ out = <<>>

\* the call of move_list_to_state on a list with an unknown symbol does not
\* return and builds no state vector; the error is raised at the first
\* unknown symbol; a call that returns was given face names only
ReplayState ==
  /\ (~ AllTokens(actions)) =>
       /\ replay(actions) = KeyError
       /\ move_list_to_state(actions) = KeyError
       /\ pc \in {"replay", "KeyError"}
       /\ Y = Unset /\ out = Unset
  /\ pc = "KeyError" =>
       /\ actions[i] \notin Tokens
       /\ AllTokens(SubSeq(actions, 1, i - 1))
  /\ pc = "replay_returned" =>
       /\ AllTokens(actions)
       /\ Y = move_list_to_state(actions)

\* the turn of the loop at an unknown symbol raises, and nothing runs after
\* the error: the statement seq = kb.solve(state) of the caller is not
\* reached
ReplayStep ==
  /\ pc # "KeyError"
  /\ (pc = "replay" /\ i <= Len(actions) /\ actions[i] \notin Tokens) =>
       pc' = "KeyError" /\ Y' = Unset

\* C10: a token list with a symbol outside the 12 quarter-turn symbols, at
\* any position, makes move_list_to_state raise KeyError: no state vector is
\* built and solve is not entered.
C10_UnknownToken == [] ReplayState /\ [][ReplayStep]_vars

\* the replay of a list with the unknown symbol after a known one has failed
C10_Witness ==
  /\ pc = "KeyError" /\ Len(actions) = 2
  /\ actions[1] \in Tokens /\ actions[2] = BadToken


\* ------------------------------------------- claims on the pruning rule
\* the elements of a list
Range(seq) == {seq[k] : k \in 1..Len(seq)}

\* the first token of the newest move m is the last token of g turned the
\* other way
FaceInverse(m, g) ==
  m.decompo[1] = FlipCase(g.decompo[Len(g.decompo)])

\* the first token of the newest move m turns the face the last token of g
\* turns, in either direction
SameFace(m, g) ==
  \/ FaceInverse(m, g)
  \/ m.decompo[1] = g.decompo[Len(g.decompo)]

\* the products m*g of the moves of auth with the surviving candidates of
\* depth n - 1, those with the newest move the face-inverse of the last
\* token left out
KeptButInverse(auth, n) ==
  LET prev == survivors(Depth(auth, n - 1))
  IN  {__mul__(auth[p[1]], prev[p[2]]) :
         p \in {p2 \in (1..Len(auth)) \X (1..Len(prev)) :
                  ~ FaceInverse(auth[p2[1]], prev[p2[2]])}}

\* the same products, those with the newest move on the face of the last
\* token left out
KeptButSameFace(auth, n) ==
  LET prev == survivors(Depth(auth, n - 1))
  IN  {__mul__(auth[p[1]], prev[p[2]]) :
         p \in {p2 \in (1..Len(auth)) \X (1..Len(prev)) :
                  ~ SameFace(auth[p2[1]], prev[p2[2]])}}

\* for each authorized list and depth: the candidates of the depth are the
\* products kept when only the face-inverses are dropped
InverseOnlyRule ==
  [k \in 1..2 |->
     [n \in 2..MaxDepth |->
        LET auth == IF k = 1 THEN fund_l ELSE <<U, __pow__(R, 2), f>>
        IN  Range(Depth(auth, n)) = KeptButInverse(auth, n)]]

\* for each authorized list and depth: the candidates of the depth are the
\* products kept when every newest move on the face of the last token is
\* dropped
SameFaceRule ==
  [k \in 1..2 |->
     [n \in 2..MaxDepth |->
        LET auth == IF k = 1 THEN fund_l ELSE <<U, __pow__(R, 2), f>>
        IN  Range(Depth(auth, n)) = KeptButSameFace(auth, n)]]

\* the call q examines the candidates of depth n: no candidate of a smaller
\* depth qualifies
Examines(q, n) ==
  n <= q.maxMove /\ \A n2 \in 1..(n - 1) : ~ QualifiesAt(q, n2)

\* the index of the authorized list of the call
AuthIndex(q) == IF q.auth = fund_l THEN 1 ELSE 2

\* C11 as stated: at every depth n >= 2 a search examines, the candidates are
\* the products m*g of an authorized move with a surviving candidate of the
\* depth before, except exactly those whose newest move is the face-inverse
\* of the last token of g; a same-direction repeat is kept.
C11_InverseOnly ==
  Returned =>
    \A n \in 2..MaxDepth : Examines(sq, n) => InverseOnlyRule[AuthIndex(sq)][n]

\* C11 amended: at every depth n >= 2 a search examines, the candidates are
\* the products m*g of an authorized move with a surviving candidate of the
\* depth before, except exactly those whose newest move starts with a token
\* on the face of the last token of g, in the opposite or in the same
\* direction.
C11_PruningRule ==
  Returned =>
    \A n \in 2..MaxDepth : Examines(sq, n) => SameFaceRule[AuthIndex(sq)][n]

\* a search over fund_l has examined the second depth, whose candidates
\* hold a product on two faces and no same-direction repeat
C11_Witness ==
  /\ Returned /\ sq.auth = fund_l /\ Examines(sq, 2)
  /\ __mul__(U, F) \in Range(Depth(sq.auth, 2))
  /\ __mul__(F, F) \notin Range(Depth(sq.auth, 2))


\* the corner and edge permutations of a move
Placement(m) == [A8 |-> m.A8, A12 |-> m.A12]

\* the placements of all the products of n moves of fund_l, none left out
RECURSIVE Unpruned(_)
Unpruned(n) ==
  IF n = 1 THEN {Placement(fund_l[k]) : k \in 1..Len(fund_l)}
  ELSE {[A8 |-> MatMul(fund_l[k].A8, pl.A8),
         A12 |-> MatMul(fund_l[k].A12, pl.A12)] :
          k \in 1..Len(fund_l), pl \in Unpruned(n - 1)}

\* the placements of the unpruned products, by number of moves
UnprunedByDepth == [n \in 1..MaxDepth |-> Unpruned(n)]

\* the move is a candidate of one of the depths 1..n of a search over auth
WithinDepth(auth, n, m) ==
  \E n2 \in 1..n :
    LET cands == Depth(auth, n2)
    IN  \E k \in 1..Len(cands) : cands[k] = m

\* C12: over fund_l, when some product of k <= maxMove authorized moves,
\* pruned or not, places the cubies as the search asks, the search returns a
\* move made of at most k authorized moves; when the identity already places
\* them, the search returns the identity with an empty token list.
C12_PruningLosesNoAnswer ==
  (Returned /\ sq.auth = fund_l) =>
    /\ \A n \in 1..sq.maxMove :
         (\E pl \in UnprunedByDepth[n] : Qualifies(sq, pl)) =>
           sres # None /\ WithinDepth(fund_l, n, sres)
    /\ (sq.maxMove >= 1 /\ Qualifies(sq, move_seq(<<>>))) =>
         sres = move_seq(<<>>) /\ sres.decompo = <<>>

\* a search over fund_l has returned where a product of two moves that the
\* pruning drops, a face turned twice, places the cubies, and the identity
\* does not
C12_Witness ==
  /\ Returned /\ sq.auth = fund_l /\ sq.maxMove >= 2
  /\ Qualifies(sq, __mul__(F, F))
  /\ ~ Qualifies(sq, move_seq(<<>>))
  /\ sres # None /\ sres.decompo = <<"F", "F">>


\* ------------------------------------------------- claims on the phases
\* the vector yv with the entries of the slots k and k2 exchanged
Exchanged(yv, k, k2) == [yv EXCEPT ![k] = yv[k2], ![k2] = yv[k]]

\* the loop of solve_corner_pos is at a slot that does not hold its label
CornerMisplaced == pc = "solve_corner_pos" /\ i < 8 /\ y[i] # i

\* in every state of solve_corner_pos: the slots before i hold their labels,
\* the lookup of j succeeds at a misplaced slot, no error was raised, and
\* after the loop every slot holds its label
CornerPosState ==
  /\ pc \in {"solve_corner_pos", "solve_corner_pos_returned"}
  /\ pc = "solve_corner_pos" => \A k \in 0..(i - 1) : y[k] = k
  /\ CornerMisplaced =>
       /\ lookup_j(y, i, 8) # IndexError
       /\ lookup_j(y, i, 8).j > i
       /\ y[lookup_j(y, i, 8).j] = i
  /\ (pc = "solve_corner_pos" /\ i = 8) => y = IdPerm(8)
  /\ pc = "solve_corner_pos_returned" =>
       y = IdPerm(8) /\ "A8" \in DOMAIN res

\* a turn of the loop at a misplaced slot exchanges the entries of the slots
\* i and j and leaves the others
CornerPosStep ==
  CornerMisplaced =>
    /\ pc' = "solve_corner_pos"
    /\ i' = i + 1
    /\ y' = Exchanged(y, i, lookup_j(y, i, 8).j)
    /\ next_move'.A8 = Exchanged(IdPerm(8), i, lookup_j(y, i, 8).j)

\* C13: in solve_corner_pos, when the loop reaches slot i the slots before i
\* hold their labels, a slot j > i holding label i exists whenever slot i
\* does not hold label i, each applied conjugated switcher exchanges only the
\* cubies of the slots i and j, and after the loop all eight slots hold
\* their labels.
C13_CornerPosInvariant == [] CornerPosState /\ [][CornerPosStep]_vars

\* solve_corner_pos has returned for a 3-cycle of the slots 2, 5 and 7,
\* after two exchanges
C13_Witness ==
  /\ pc = "solve_corner_pos_returned"
  /\ Len(res.decompo) > Len(next_move.decompo)
  /\ next_move.A8 = Exchanged(IdPerm(8), 5, 7)


\* the slots a permutation does not leave in place
MovedSlots(pm) == {k \in DOMAIN pm : pm[k] # k}

\* the permutation moves three slots, in one cycle
IsThreeCycle(pm) ==
  /\ Cardinality(MovedSlots(pm)) = 3
  /\ \A k \in MovedSlots(pm) : pm[k] # k /\ pm[pm[pm[k]]] = k

\* the permutation exchanges the slots k and k2 and leaves the others
IsExchange(pm, k, k2) ==
  /\ MovedSlots(pm) = {k, k2}
  /\ pm[k] = k2 /\ pm[k2] = k

\* C14 as stated: the switcher M0 acts on the corner positions as a 3-cycle.
C14_ThreeCycle ==
  am = M0 => IsThreeCycle(corner_pos(StateOf(am)))

\* C14 amended: the switcher M0 = (F*commutator(U,L))**3 acts on the corner
\* positions as the exchange of the slots 1 and 3, the two labels solve
\* passes with it, and leaves the other six corners in their slots.
C14_SwitcherExchange ==
  am = M0 =>
    /\ IsExchange(corner_pos(StateOf(am)), 1, 3)
    /\ IsExchange(am.A8, 1, 3)
    /\ ~ IsThreeCycle(am.A8)

\* the switcher as Kube builds it, the cube of a move of five tokens
C14_Witness ==
  /\ am = M0 /\ aerr = ""
  /\ Len(am.decompo) = 15
  /\ am = __pow__(__mul__(F, commutator(U, L)), 3)


\* the orientation values of the eight corners in the local vector of
\* pivot_corner_cubies
TwistOf(yv) == [k \in 0..7 |-> yv[3 * k]]

\* the connecting move pivot_corner_cubies asks for at slot k
PivotConnector(k) ==
  send_8_slow(0, 2, 0, k, fund_l, DefaultMaxMove8, 1, <<move_seq(<<>>)>>)

\* in every state of pivot_corner_cubies: no error was raised, the corners
\* stay in their slots, the slots 1..i-1 have the value 0, and after the
\* loop all eight have, slot 0 included
CornerTwistState ==
  /\ pc \in {"pivot_corner_cubies", "pivot_corner_cubies_returned"}
  /\ \A k \in 0..23 : y[k] = (y[3 * (k \div 3)] + (k % 3)) % 3
  /\ pc = "pivot_corner_cubies" => \A k \in 1..(i - 1) : y[3 * k] = 0
  /\ (pc = "pivot_corner_cubies_returned" \/ i = 8) => TwistOf(y) = Zero(8)

\* a turn of the loop at slot i: conjugate(M1, G) once for the value 2,
\* squared for the value 1, nothing for the value 0; the applied move leaves
\* the value 0 at slot i and changes no slot other than 0 and i
CornerTwistStep ==
  (pc = "pivot_corner_cubies" /\ i < 8) =>
    /\ pc' = "pivot_corner_cubies" /\ i' = i + 1
    /\ y[3 * i] = 2 =>
         /\ next_move' = conjugate(M1, PivotConnector(i))
         /\ res' = __mul__(next_move', res)
    /\ y[3 * i] = 1 =>
         /\ next_move' = __pow__(conjugate(M1, PivotConnector(i)), 2)
         /\ Len(next_move'.decompo) =
              2 * (12 + 2 * Len(PivotConnector(i).decompo))
         /\ res' = __mul__(next_move', res)
    /\ y[3 * i] = 0 => UNCHANGED <<y, res, next_move>>
    /\ y[3 * i] # 0 => y' = MatVec(next_move'.S3, y)
    /\ y'[3 * i] = 0
    /\ \A k \in 1..7 : k # i => y'[3 * k] = y[3 * k]

\* C15: pivot_corner_cubies visits the slots 1..7 and applies
\* conjugate(M1, G) once where the orientation value is 2, squared where it
\* is 1 and nothing where it is 0, with G = send_8_slow(0, 2, 0, i); after
\* the phase the eight corner orientation values are 0, that of slot 0
\* included.
C15_CornerOrientationPhase == [] CornerTwistState /\ [][CornerTwistStep]_vars

\* pivot_corner_cubies has returned after it applied a conjugate once and
\* another squared, from a configuration with slot 0 twisted
C15_Witness ==
  /\ pc = "pivot_corner_cubies_returned"
  /\ TwistOf(y) = Zero(8)
  /\ TwistOf(MatVec(MatInv(res.S3), y))[0] # 0
  /\ \E k \in 1..7 : TwistOf(MatVec(MatInv(res.S3), y))[k] = 1
  /\ \E k \in 1..7 : TwistOf(MatVec(MatInv(res.S3), y))[k] = 2


\* the loop of solve_edge_pos is at a slot that does not hold its label
EdgeMisplaced == pc = "solve_edge_pos" /\ i < 10 /\ y[i] # i

\* the slots whose entry differs between the vectors yv and yw
Changed(yv, yw) == {k \in DOMAIN yv : yv[k] # yw[k]}

\* in every state of solve_edge_pos: no error was raised, the slots before i
\* hold their labels, and after the loop all twelve do
EdgePosState ==
  /\ pc \in {"solve_edge_pos", "solve_edge_pos_returned"}
  /\ pc = "solve_edge_pos" => \A k \in 0..(i - 1) : y[k] = k
  /\ (pc = "solve_edge_pos_returned" \/ i = 10) => y = IdPerm(12)

\* a turn of the loop at a misplaced slot: the applied move brings label i to
\* slot i and moves the cubies of three slots, i, j and one more after i
EdgePosStep ==
  EdgeMisplaced =>
    /\ pc' = "solve_edge_pos" /\ i' = i + 1
    /\ y' = MatVec(next_move'.A12, y)
    /\ y'[i] = i
    /\ {i, lookup_j(y, i, 12).j} \subseteq Changed(y, y')
    /\ Cardinality(Changed(y, y')) = 3
    /\ \A k \in Changed(y, y') : k >= i
    /\ MovedSlots(next_move'.A12) = Changed(y, y')

\* C16: in solve_edge_pos, when the loop reaches slot i the slots before i
\* hold their labels, each applied conjugated switcher moves only the cubies
\* of slot i, slot j and one more slot after i, and after the loop over the
\* first 10 slots all 12 slots hold their labels, 10 and 11 included.
C16_EdgePosInvariant == [] EdgePosState /\ [][EdgePosStep]_vars

\* solve_edge_pos has returned for a 3-cycle of the slots 9, 10 and 11,
\* which it solved at slot 9
C16_Witness ==
  /\ pc = "solve_edge_pos_returned"
  /\ res = next_move
  /\ MovedSlots(res.A12) = {9, 10, 11}


\* the connecting move solve_edge_pos asks for with the switcher number k
\* at the slots ix and jx
EdgeConnector(k, ix, jx, auth) ==
  send_12(c_l[k][1], c_l[k][2], c_l[k][3], ix, jx, auth, DefaultMaxMove12, 1,
          <<move_seq(<<>>)>>)

\* the number of the first switcher of the list whose search returns a move,
\* 0 when the four searches return None
FirstSwitcher(ix, jx, auth) ==
  first_index([k \in 1..4 |-> EdgeConnector(k, ix, jx, auth) # None])

\* a turn of the loop of solve_edge_pos at a misplaced slot: the first
\* switcher whose search returns a move is conjugated and applied; when the
\* four searches fail an error ends the phase and no move is composed
FallbackStep(auth) ==
  (EdgeMisplaced /\ lookup_j(y, i, 12) # IndexError) =>
    /\ FirstSwitcher(i, lookup_j(y, i, 12).j, auth) # 0 =>
         /\ next_move' =
              conjugate(
                switcher_l[FirstSwitcher(i, lookup_j(y, i, 12).j, auth)],
                EdgeConnector(FirstSwitcher(i, lookup_j(y, i, 12).j, auth),
                              i, lookup_j(y, i, 12).j, auth))
         /\ res' = __mul__(next_move', res)
    /\ FirstSwitcher(i, lookup_j(y, i, 12).j, auth) = 0 =>
         /\ pc' \notin {"solve_edge_pos", "solve_edge_pos_returned"}
         /\ res' = res

\* C17: at a misplaced edge slot the switchers M20, M21, M22, M23 are tried
\* in list order and the first whose send_12 search returns a move is
\* conjugated and applied; when the search fails for all four, the phase
\* ends with an error and composes no move for the slot (the move of an
\* earlier slot is not applied again).
C17_SwitcherFallback == [][FallbackStep(short_auth)]_vars


\* the orientation values of the twelve edges in the local vector of
\* pivot_edge_cubies
FlipOf(yv) == [k \in 0..11 |-> yv[2 * k]]

\* the connecting move pivot_edge_cubies asks for at slot k
FlipConnector(k) ==
  send_12_slow(0, 3, 0, k, fund_l, DefaultMaxMove12, 1, <<move_seq(<<>>)>>)

\* in every state of pivot_edge_cubies: no error was raised, the edges stay
\* in their slots, the slots 1..i-1 have the value 0, and after the loop all
\* twelve have, slot 0 included
EdgeFlipState ==
  /\ pc \in {"pivot_edge_cubies", "pivot_edge_cubies_returned"}
  /\ \A k \in 0..23 : y[k] = (y[2 * (k \div 2)] + (k % 2)) % 2
  /\ pc = "pivot_edge_cubies" => \A k \in 1..(i - 1) : y[2 * k] = 0
  /\ (pc = "pivot_edge_cubies_returned" \/ i = 12) => FlipOf(y) = Zero(12)

\* a turn of the loop at slot i: conjugate(M31, G) where the value is not 0,
\* nothing where it is 0; the applied move leaves the value 0 at slot i and
\* changes no slot other than 0 and i
EdgeFlipStep ==
  (pc = "pivot_edge_cubies" /\ i < 12) =>
    /\ pc' = "pivot_edge_cubies" /\ i' = i + 1
    /\ y[2 * i] # 0 =>
         /\ next_move' = conjugate(M31, FlipConnector(i))
         /\ Len(next_move'.decompo) = 20 + 2 * Len(FlipConnector(i).decompo)
         /\ res' = __mul__(next_move', res)
         /\ y' = MatVec(next_move'.S2, y)
         /\ y'[0] # y[0]
    /\ y[2 * i] = 0 => UNCHANGED <<y, res, next_move>>
    /\ y'[2 * i] = 0
    /\ \A k \in 1..11 : k # i => y'[2 * k] = y[2 * k]

\* C18: pivot_edge_cubies visits the edge slots 1..11 and applies
\* conjugate(M31, G) with G = send_12_slow(0, 3, 0, i) exactly at the slots
\* whose orientation value is not 0; after the phase the twelve edge
\* orientation values are 0, that of slot 0 included.
C18_EdgeOrientationPhase == [] EdgeFlipState /\ [][EdgeFlipStep]_vars

\* pivot_edge_cubies has returned after it flipped three slots, from a
\* configuration with slot 0 flipped
C18_Witness ==
  /\ pc = "pivot_edge_cubies_returned"
  /\ FlipOf(y) = Zero(12)
  /\ FlipOf(MatVec(MatInv(res.S2), y))[0] = 1
  /\ Cardinality({k \in 1..11 : FlipOf(MatVec(MatInv(res.S2), y))[k] = 1}) = 3


\* the move m leaves every corner in its slot
KeepsCornerPos(m) == m.A8 = IdPerm(8)

\* the move m leaves every corner in its slot with its twist
KeepsCorners(m) == KeepsCornerPos(m) /\ m.S3 = IdPerm(24)

\* the move m leaves every edge in its slot
KeepsEdgePos(m) == m.A12 = IdPerm(12)

\* C19: no phase undoes an earlier one. In every run of solve the move
\* pivot_corner_cubies returns (res2) has the identity corner permutation,
\* the move solve_edge_pos returns (res3) has the identity corner permutation
\* and zero corner twists, and the move pivot_edge_cubies returns (res4) has
\* the identity corner permutation, zero corner twists and the identity edge
\* permutation. The moves the three phases conjugate (M1, M20..M23, M31)
\* have these properties themselves.
C19_PhasesKeepEarlierWork ==
  /\ KeepsCornerPos(M1)
  /\ \A k \in 1..4 : KeepsCorners(switcher_l[k])
  /\ KeepsCorners(M31) /\ KeepsEdgePos(M31)
  /\ Len(resl) >= 2 => KeepsCornerPos(resl[2])
  /\ Len(resl) >= 3 =>
       /\ KeepsCorners(resl[3])
       /\ corner_value(StateOf(resl[3])) = Zero(8)
  /\ Len(resl) >= 4 =>
       /\ KeepsCorners(resl[4]) /\ KeepsEdgePos(resl[4])
       /\ corner_value(StateOf(resl[4])) = Zero(8)

\* solve has returned and each of the last three phases returned a move that
\* is not the identity
C19_Witness ==
  /\ pc = "done" /\ Len(resl) = 4
  /\ resl[2].S3 # IdPerm(24)
  /\ resl[3].A12 # IdPerm(12)
  /\ resl[4].S2 # IdPerm(24)


\* the connector searches of the three phases at slot k on the short list
ShortConnector8(k) ==
  send_8(1, 3, k, lookup_j(y, k, 8).j, short_auth, DefaultMaxMove8, 1,
         <<move_seq(<<>>)>>)
ShortPivotConnector(k) ==
  send_8_slow(0, 2, 0, k, short_auth, DefaultMaxMove8, 1, <<move_seq(<<>>)>>)
ShortFlipConnector(k) ==
  send_12_slow(0, 3, 0, k, short_auth, DefaultMaxMove12, 1,
               <<move_seq(<<>>)>>)

\* the turn of the loop at slot i asks for a connector and the search
\* returns None
Exhausted ==
  \/ /\ pc = "solve_corner_pos" /\ i < 8 /\ y[i] # i
     /\ ShortConnector8(i) = None
  \/ /\ pc = "pivot_corner_cubies" /\ i < 8 /\ y[3 * i] # 0
     /\ ShortPivotConnector(i) = None
  \/ /\ pc = "pivot_edge_cubies" /\ i < 12 /\ y[2 * i] # 0
     /\ ShortFlipConnector(i) = None

\* a name of a raised error in pc
Raised == pc \in {"TypeError", "NameError", "IndexError"}

\* the turn of the loop that meets a failed search raises TypeError, and no
\* other turn raises; nothing runs after the error: the phase does not
\* return, and no token list is produced
ExhaustStep ==
  /\ Exhausted => pc' = "TypeError" /\ UNCHANGED <<y, res, next_move, i, out>>
  /\ Raised' => Exhausted
  /\ ~Raised

\* C20: in solve_corner_pos, pivot_corner_cubies and pivot_edge_cubies a
\* connector search that returns None is fatal: the turn of the loop raises
\* (TypeError, from None*A in conjugate), nothing catches it, the phase
\* never returns and solve returns no token list.
C20_ExhaustionIsFatal == [] (Raised => out = Unset) /\ [][ExhaustStep]_vars

\* a phase has raised after it had applied a move at an earlier slot: the
\* partial result is not returned
C20_Witness ==
  /\ pc = "TypeError" /\ out = Unset
  /\ res.decompo # <<>>


\* the search call sq has returned a move that meets the test of its search
QueryMet ==
  CASE sq.fn = "send_8" -> hit_8(sres, sq.cb1, sq.cb2, sq.cl1, sq.cl2)
    [] sq.fn = "send_8_slow" ->
         hit_8_slow(sres, sq.cb1, sq.cb2, sq.cl1, sq.cl2)
    [] sq.fn = "send_12" ->
         hit_12(sres, sq.cb1, sq.cb2, sq.cb3, sq.cl1, sq.cl2)
    [] sq.fn = "send_12_slow" ->
         hit_12_slow(sres, sq.cb1, sq.cb2, sq.cl1, sq.cl2)

\* C21: with the list fund_l and the default depth bounds every connector
\* search of solve finds a move: send_8(1, 3, i, j) within 5 authorized moves
\* for every corner slot pair i < j, send_8_slow(0, 2, 0, i) within 5 for
\* every i in 1..7, send_12_slow(0, 3, 0, i) within 3 for every i in 1..11,
\* and for every edge slot pair i in 0..9, i < j <= 11, send_12 within 3 with
\* at least one of the four label triples: a search returns None only in
\* send_12 with a label triple that is not the last.
C21_ConnectorCoverage ==
  /\ sres = None => sq.fn = "send_12" /\ triple_index(sq) < Len(c_l)
  /\ (sres # None /\ sres # Pending) =>
       /\ QueryMet
       /\ Len(sres.decompo) <= 2 * sq.maxMove
       /\ sq.maxMove = IF sq.fn \in {"send_8", "send_8_slow"} THEN 5 ELSE 3

\* send_12 has found a move with the last label triple, after the other three
\* had given None
C21_Witness ==
  /\ sq.fn = "send_12" /\ triple_index(sq) = 4
  /\ sres # None /\ sres # Pending


\* the labels the position vector pv holds
ValuesOf(pv) == {pv[k] : k \in DOMAIN pv}

\* the sum of the eight corner orientation values of the state vector Yv
CornerValueSum(Yv) ==
  corner_value(Yv)[0] + corner_value(Yv)[1] + corner_value(Yv)[2]
    + corner_value(Yv)[3] + corner_value(Yv)[4] + corner_value(Yv)[5]
    + corner_value(Yv)[6] + corner_value(Yv)[7]

\* the sum of the twelve edge orientation values of the state vector Yv
EdgeValueSum(Yv) ==
  edge_value(Yv)[0] + edge_value(Yv)[1] + edge_value(Yv)[2]
    + edge_value(Yv)[3] + edge_value(Yv)[4] + edge_value(Yv)[5]
    + edge_value(Yv)[6] + edge_value(Yv)[7] + edge_value(Yv)[8]
    + edge_value(Yv)[9] + edge_value(Yv)[10] + edge_value(Yv)[11]

\* C22: every configuration move_list_to_state produces from a list of the
\* 12 quarter-turn tokens has corner and edge position vectors that are
\* bijections on 0..7 and 0..11, corner orientation values in 0..2 and edge
\* orientation values in 0..1, a sum of corner orientation values divisible
\* by 3, a sum of edge orientation values divisible by 2, and a corner
\* permutation of the parity of the edge permutation.
C22_ReachableConfiguration ==
  pc = "move_list_to_state" =>
    /\ ValuesOf(corner_pos(Y)) = 0..7
    /\ ValuesOf(edge_pos(Y)) = 0..11
    /\ \A k \in 0..7 : corner_value(Y)[k] \in 0..2
    /\ \A k \in 0..11 : edge_value(Y)[k] \in 0..1
    /\ CornerValueSum(Y) % 3 = 0
    /\ EdgeValueSum(Y) % 2 = 0
    /\ Even(corner_pos(Y), 0..7) <=> Even(edge_pos(Y), 0..11)

\* three tokens were replayed: the corner permutation is odd and there are
\* twisted corners and flipped edges
C22_Witness ==
  /\ pc = "move_list_to_state" /\ Len(actions) = 3
  /\ ~Even(corner_pos(Y), 0..7)
  /\ CornerValueSum(Y) > 3
  /\ EdgeValueSum(Y) > 2

====
